---- MODULE Spec2Model ----
(***************************************************************************)
(* A model of src/src/lib.rs: the C-callable hex parser parse_hex and the   *)
(* error object it hands across the boundary (cfm_err_get_code,             *)
(* cfm_err_get_msg, cfm_err_get_source, cfm_err_get_backtrace,              *)
(* cfm_err_destroy).                                                        *)
(*                                                                          *)
(* A text is the byte sequence of a C string (bytes 1..255, the terminating *)
(* NUL left out).  The Error heap is a map from addresses to cells; a       *)
(* handle is an address, NULL is 0.                                         *)
(***************************************************************************)
EXTENDS Integers, Sequences, FiniteSets

VARIABLES heap,      \* Addr -> cell: the Box<Error> allocations
          handles,   \* Addr -> how many undestroyed handles the C caller holds
          call,      \* the last boundary call: its inputs, status and out-writes
          fault      \* "none", or the memory fault the process has run into

vars == <<heap, handles, call, fault>>

\* ---------------------------------------------------------------- bounds

\* Longest text handed to parse_hex.
MaxLen == 5
\* Number of addresses the allocator has for Error boxes.
MaxErr == 2
\* Most undestroyed handles the caller keeps to one address.
MaxRefs == 2

\* ------------------------------------------------------------- constants

\* The largest u8: the accumulator of parsehex is `let mut result: u8`.
U8Max == 255
\* The radix of `ch.to_digit(16)` and `checked_mul(16)`.
Radix == 16
\* The null pointer.
NULL == 0
\* Option::None of an integer-valued Option.
None == -1

\* The ASCII bytes texts are made of: '0' '1' 'F' 'f' 'g' 'x'.
Bytes == {48, 49, 70, 102, 103, 120}

RECURSIVE SeqsUpTo(_)
SeqsUpTo(n) ==
    IF n = 0 THEN {<<>>}
    ELSE LET shorter == SeqsUpTo(n - 1)
         IN  shorter \cup {Append(t, b) : t \in {u \in shorter : Len(u) = n - 1}, b \in Bytes}

\* The texts handed to parse_hex: the ASCII texts of up to MaxLen bytes, and
\* those of them that end in 0xFF, a byte that occurs in no valid UTF-8
\* sequence.
Texts ==
    LET ascii == SeqsUpTo(MaxLen)
    IN  ascii \cup {Append(t, 255) : t \in {u \in ascii : Len(u) < MaxLen}}

Addr == 1..MaxErr

\* ------------------------------------------------------------ Error type

\* enum Error: the five variants.
Kinds == {"NullPointer", "InvalidFormat", "InvalidHexDigit", "Overflow", "InvalidUTF8"}

\* An Error value: its variant, the ch of InvalidHexDigit (0 otherwise), and
\* its ErrorCommon: source (NULL for Option::None, else the address of the
\* Box<Error>) and backtrace (FALSE for Option::None).
MkError(kind, ch, source, backtrace) ==
    [kind |-> kind, ch |-> ch, source |-> source, backtrace |-> backtrace]

\* A cell of the heap that holds no Error.
NoError == MkError("none", 0, NULL, FALSE)
Unalloc == [state |-> "unalloc", val |-> NoError]
Freed   == [state |-> "freed", val |-> NoError]
Live(e) == [state |-> "live", val |-> e]

IsLive(hp, a) == a \in Addr /\ hp[a].state = "live"

\* Result<T>: Ok(v) / Err(e)
Ok(v)  == [ok |-> TRUE, value |-> v, err |-> NoError]
Err(e) == [ok |-> FALSE, value |-> 0, err |-> e]

\* ------------------------------------------------------- pure functions

\* CStr::to_str: the bytes are valid UTF-8.  Of the bytes of the model the
\* ASCII ones (below 128) each are a one-byte sequence, and 0xFF starts none.
to_str_ok(bytes) == \A i \in 1..Len(bytes) : bytes[i] < 128

\* fn cstring(s: *const c_char) -> Result<String>
cstring(sNull, bytes) ==
    IF sNull THEN Err(MkError("NullPointer", 0, NULL, TRUE))
    ELSE IF to_str_ok(bytes) THEN Ok(bytes)
    ELSE Err(MkError("InvalidUTF8", 0, NULL, TRUE))

\* A variant of to_digit that knows no upper-case digits.
to_digit_nocase_bug(ch, radix) ==
    LET d == IF ch >= 48 /\ ch <= 57 THEN ch - 48
             ELSE IF ch >= 97 /\ ch <= 122 THEN ch - 97 + 10
             ELSE None
    IN  IF d # None /\ d < radix THEN d ELSE None

\* char::to_digit(radix): '0'..'9', 'a'..'z', 'A'..'Z' give their digit
\* value if it is below the radix.
to_digit(ch, radix) ==
    LET d == IF ch >= 48 /\ ch <= 57 THEN ch - 48
             ELSE IF ch >= 97 /\ ch <= 122 THEN ch - 97 + 10
             ELSE IF ch >= 65 /\ ch <= 90 THEN ch - 65 + 10
             ELSE None
    IN  IF d # None /\ d < radix THEN d ELSE None

\* u8::wrapping_mul: the product modulo 256.
wrapping_mul(a, b) == (a * b) % (U8Max + 1)

\* u8::checked_mul: None if the product does not fit a u8.
checked_mul(a, b) == IF a * b > U8Max THEN None ELSE a * b

\* u8::checked_add
checked_add(a, b) == IF a + b > U8Max THEN None ELSE a + b

\* str::starts_with
starts_with(s, p) == Len(s) >= Len(p) /\ SubSeq(s, 1, Len(p)) = p

\* str::trim_start_matches(pat): the prefix pat is removed repeatedly.
RECURSIVE trim_start_matches(_, _)
trim_start_matches(s, p) ==
    IF starts_with(s, p) THEN trim_start_matches(SubSeq(s, Len(p) + 1, Len(s)), p)
    ELSE s

\* The loop of parsehex over the characters left, result being the
\* accumulator so far.
RECURSIVE parsehex_loop(_, _)
parsehex_loop(t, result) ==
    IF t = <<>> THEN Ok(result)
    ELSE LET ch == Head(t)
             x  == to_digit(ch, Radix)
         IN  IF x = None THEN Err(MkError("InvalidHexDigit", ch, NULL, TRUE))
             ELSE LET m == checked_mul(result, Radix)
                  IN  IF m = None THEN Err(MkError("Overflow", 0, NULL, TRUE))
                      ELSE LET a == checked_add(m, x)
                           IN  IF a = None THEN Err(MkError("Overflow", 0, NULL, TRUE))
                               ELSE parsehex_loop(Tail(t), a)

\* fn parsehex(s: &str) -> Result<u8>
parsehex(s) ==
    IF s = <<>> THEN Err(MkError("InvalidFormat", 0, NULL, TRUE))
    ELSE parsehex_loop(trim_start_matches(s, <<48, 120>>), 0)

\* fn error_code(error: &Error) -> u32
error_code(e) ==
    CASE e.kind = "NullPointer"     -> 1
      [] e.kind = "InvalidFormat"   -> 2
      [] e.kind = "InvalidHexDigit" -> 3
      [] e.kind = "Overflow"        -> 4
      [] e.kind = "InvalidUTF8"     -> 5

\* fn error_message(error: &Error) -> String: the literal, and for
\* InvalidHexDigit the formatted character after it.
error_message(e) ==
    CASE e.kind = "NullPointer"     -> <<"Null pointer">>
      [] e.kind = "InvalidFormat"   -> <<"Invalid format">>
      [] e.kind = "InvalidHexDigit" -> <<"Invalid hex digit: ", e.ch>>
      [] e.kind = "InvalidUTF8"     -> <<"Invalid UTF-8">>
      [] e.kind = "Overflow"        -> <<"Overflow">>

\* fn error_backtrace(error: &Error) -> &Option<Backtrace>
error_backtrace(e) == e.backtrace

\* fn error_source(error: &Error) -> &Option<Box<Error>>
error_source(e) == e.source

\* ------------------------------------------------------------ the heap

\* Some live Error owns the box at a as its source.
OwnedAsSource(hp, a) == \E b \in Addr : hp[b].state = "live" /\ hp[b].val.source = a

\* The addresses Box::new may return: not allocated, and (a bound of the
\* model) referred to by no handle and no source, so that a released address
\* is reused only once nothing dangles into it.
FreeAddrs(hp, hd) ==
    {a \in Addr : hp[a].state # "live" /\ hd[a] = 0 /\ ~OwnedAsSource(hp, a)}

\* The address Box::new returns.
NewAddr(hp, hd) == CHOOSE a \in FreeAddrs(hp, hd) : \A b \in FreeAddrs(hp, hd) : a <= b

\* Box::new(e) followed by Box::into_raw: the heap with e at a.
BoxNew(hp, a, e) == [hp EXCEPT ![a] = Live(e)]

\* Dropping the Box<Error> at a: the Error's fields are dropped (its source
\* box, recursively) and the allocation is released.  bad: the box was
\* already released, so the drop reads released memory and releases it again.
RECURSIVE drop_box(_, _)
drop_box(hp, a) ==
    IF hp[a].state # "live" THEN [heap |-> hp, bad |-> TRUE]
    ELSE LET src == hp[a].val.source
             hp1 == [hp EXCEPT ![a] = Freed]
         IN  IF src = NULL THEN [heap |-> hp1, bad |-> FALSE]
             ELSE drop_box(hp1, src)

\* ----------------------------------------------------- the call record

\* No call yet.
NoCall ==
    [op |-> "none", sNull |-> FALSE, s |-> <<>>, resultNull |-> FALSE,
     errNull |-> FALSE, h |-> NULL, returned |-> FALSE, ret |-> None,
     result |-> None, errOut |-> NULL, out |-> <<>>, nullWrite |-> FALSE]

\* A parse_hex call: ret is the status (None if the call did not return),
\* result the value written through result (None if nothing was), errOut the
\* handle written through err (NULL if nothing was), nullWrite whether a
\* store through a null pointer was made.
ParseCall(sNull, bytes, resultNull, errNull, returned, ret, result, errOut, nullWrite) ==
    [op |-> "parse_hex", sNull |-> sNull, s |-> bytes, resultNull |-> resultNull,
     errNull |-> errNull, h |-> NULL, returned |-> returned, ret |-> ret,
     result |-> result, errOut |-> errOut, out |-> <<>>, nullWrite |-> nullWrite]

\* A call of an accessor or of cfm_err_destroy on handle h: out is what was
\* written through the out-parameter.
ErrCall(op, h, returned, ret, out) ==
    [op |-> op, sNull |-> FALSE, s |-> <<>>, resultNull |-> FALSE,
     errNull |-> FALSE, h |-> h, returned |-> returned, ret |-> ret,
     result |-> None, errOut |-> NULL, out |-> out, nullWrite |-> FALSE]

\* ------------------------------------------------------------------ Init

Init ==
    /\ heap = [a \in Addr |-> Unalloc]
    /\ handles = [a \in Addr |-> 0]
    /\ call = NoCall
    /\ fault = "none"

\* ------------------------------------------------------------- parse_hex

\* macro non_null!(param, errptr) with param null: the NullPointer Error is
\* boxed and its address stored through errptr, which is not checked.  With
\* errptr null the store is undefined behaviour: the process faults, or the
\* store lands at address 0 and the call returns; either way the box is
\* left to nobody.
non_null_fails(sNull, bytes, errNull) ==
    LET e == MkError("NullPointer", 0, NULL, TRUE)
        a == NewAddr(heap, handles)
    IN  /\ FreeAddrs(heap, handles) # {}
        /\ heap' = BoxNew(heap, a, e)
        /\ IF errNull
           THEN \E outcome \in {"segv", "null_store"} :
                   /\ handles' = handles
                   /\ fault' = outcome
                   /\ call' = ParseCall(sNull, bytes, TRUE, errNull, outcome = "null_store",
                                        IF outcome = "null_store" THEN error_code(e) ELSE None,
                                        None, NULL, TRUE)
           ELSE /\ handles' = [handles EXCEPT ![a] = 1]
                /\ fault' = fault
                /\ call' = ParseCall(sNull, bytes, TRUE, errNull, TRUE, error_code(e),
                                     None, a, FALSE)

\* A variant of handle_err! that returns the code and hands no Error over.
handle_err_no_handle(e, sNull, bytes, errNull) ==
    /\ heap' = heap
    /\ handles' = handles
    /\ fault' = fault
    /\ call' = ParseCall(sNull, bytes, FALSE, errNull, TRUE, error_code(e), None, NULL, FALSE)

\* macro handle_err!(error, errptr): the code is returned; the Error is
\* boxed and handed over only if errptr is not null, and dropped otherwise.
handle_err(e, sNull, bytes, errNull) ==
    IF errNull
    THEN /\ heap' = heap
         /\ handles' = handles
         /\ fault' = fault
         /\ call' = ParseCall(sNull, bytes, FALSE, errNull, TRUE, error_code(e), None, NULL, FALSE)
    ELSE LET a == NewAddr(heap, handles)
         IN  /\ FreeAddrs(heap, handles) # {}
             /\ heap' = BoxNew(heap, a, e)
             /\ handles' = [handles EXCEPT ![a] = 1]
             /\ fault' = fault
             /\ call' = ParseCall(sNull, bytes, FALSE, errNull, TRUE, error_code(e), None, a, FALSE)

\* pub extern "C" fn parse_hex(s, result, err) -> u32
parse_hex(sNull, bytes, resultNull, errNull) ==
    /\ fault = "none"
    /\ IF resultNull THEN non_null_fails(sNull, bytes, errNull)
       ELSE LET s == cstring(sNull, bytes)
            IN  IF ~s.ok THEN handle_err(s.err, sNull, bytes, errNull)
                ELSE LET r == parsehex(s.value)
                     IN  IF r.ok
                         THEN /\ call' = ParseCall(sNull, bytes, FALSE, errNull, TRUE, 0,
                                                   r.value, NULL, FALSE)
                              /\ UNCHANGED <<heap, handles, fault>>
                         ELSE handle_err(r.err, sNull, bytes, errNull)

\* ------------------------------------------------------- error accessors

\* The caller passes a handle it holds and has not destroyed, whose Error is
\* live.
Usable(h) == fault = "none" /\ handles[h] > 0 /\ IsLive(heap, h)

\* pub extern "C" fn cfm_err_get_msg(err, msg) -> u32
cfm_err_get_msg(h) ==
    /\ Usable(h)
    /\ call' = ErrCall("cfm_err_get_msg", h, TRUE, 0, error_message(heap[h].val))
    /\ UNCHANGED <<heap, handles, fault>>

\* pub extern "C" fn cfm_err_get_code(err, code) -> u32
cfm_err_get_code(h) ==
    /\ Usable(h)
    /\ call' = ErrCall("cfm_err_get_code", h, TRUE, 0, <<error_code(heap[h].val)>>)
    /\ UNCHANGED <<heap, handles, fault>>

\* A variant of cfm_err_get_source in which the parent gives its source up
\* when it is queried.
cfm_err_get_source_take(h) ==
    /\ Usable(h)
    /\ LET src == error_source(heap[h].val)
       IN  /\ src # NULL => handles[src] < MaxRefs
           /\ call' = ErrCall("cfm_err_get_source", h, TRUE, 0, <<src>>)
           /\ handles' = IF src = NULL THEN handles ELSE [handles EXCEPT ![src] = @ + 1]
           /\ heap' = [heap EXCEPT ![h].val.source = NULL]
    /\ UNCHANGED fault

\* pub extern "C" fn cfm_err_get_source(err, src) -> u32: the address of the
\* source box is written out as a handle while the parent keeps the box.
\* (err is borrowed as &Error, through which the parent cannot be written:
\* Box::into_raw(*source) yields the box's address and leaves the parent's
\* source as it is.)
cfm_err_get_source(h) ==
    /\ Usable(h)
    /\ LET src == error_source(heap[h].val)
       IN  /\ src # NULL => handles[src] < MaxRefs
           /\ call' = ErrCall("cfm_err_get_source", h, TRUE, 0, <<src>>)
           /\ handles' = IF src = NULL THEN handles ELSE [handles EXCEPT ![src] = @ + 1]
    /\ UNCHANGED <<heap, fault>>

\* pub extern "C" fn cfm_err_get_backtrace(err, backtrace) -> u32: a text
\* buffer, or null if no backtrace was captured.
cfm_err_get_backtrace(h) ==
    /\ Usable(h)
    /\ call' = ErrCall("cfm_err_get_backtrace", h, TRUE, 0,
                       IF error_backtrace(heap[h].val) THEN <<"backtrace">> ELSE <<NULL>>)
    /\ UNCHANGED <<heap, handles, fault>>

\* pub extern "C" fn cfm_err_destroy(err): Box::from_raw(err) is dropped.
\* The caller destroys a handle it holds, once.
cfm_err_destroy(h) ==
    /\ fault = "none"
    /\ handles[h] > 0
    /\ LET d == drop_box(heap, h)
       IN  /\ heap' = d.heap
           /\ fault' = IF d.bad THEN "double_free" ELSE fault
           /\ call' = ErrCall("cfm_err_destroy", h, ~d.bad, None, <<>>)
    /\ handles' = [handles EXCEPT ![h] = @ - 1]

\* A caller on the Rust side wraps the Error of handle c as the cause of a
\* new Error: Error::kind { common: ErrorCommon { source: Some(box c),
\* backtrace } }, boxed.  The handle c is consumed, the new Error owns it.
chain_error(kind, backtrace, c) ==
    /\ Usable(c)
    /\ handles[c] = 1
    /\ ~OwnedAsSource(heap, c)
    /\ LET hd1 == [handles EXCEPT ![c] = 0]
           free == {a \in FreeAddrs(heap, hd1) : a # c}
           a == CHOOSE x \in free : \A y \in free : x <= y
           e == MkError(kind, IF kind = "InvalidHexDigit" THEN 103 ELSE 0, c, backtrace)
       IN  /\ free # {}
           /\ heap' = BoxNew(heap, a, e)
           /\ handles' = [hd1 EXCEPT ![a] = 1]
           /\ call' = ErrCall("chain_error", a, TRUE, None, <<>>)
    /\ UNCHANGED fault

\* -------------------------------------------------------- specifications

\* The texts of the error-object specification: "g", "100", "1f" and the
\* invalid byte 0xFF.
SampleTexts == {<<103>>, <<49, 48, 48>>, <<49, 102>>, <<255>>}

\* The variants the Rust-side caller wraps a cause in.
ChainKinds == {"InvalidFormat", "InvalidHexDigit"}

\* The error objects: parse_hex with an error out-parameter on a few texts,
\* chaining, and every accessor and destroy, in any order the caller's
\* obligations allow.
Next ==
    \/ \E sNull \in BOOLEAN, resultNull \in BOOLEAN :
         \E bytes \in (IF sNull THEN {<<>>} ELSE SampleTexts) :
            parse_hex(sNull, bytes, resultNull, FALSE)
    \/ \E kind \in ChainKinds, backtrace \in BOOLEAN, c \in Addr :
            chain_error(kind, backtrace, c)
    \/ \E h \in Addr : cfm_err_get_code(h)
    \/ \E h \in Addr : cfm_err_get_msg(h)
    \/ \E h \in Addr : cfm_err_get_source(h)
    \/ \E h \in Addr : cfm_err_get_backtrace(h)
    \/ \E h \in Addr : cfm_err_destroy(h)

Spec == Init /\ [][Next]_vars

\* A parse_hex call the caller is about to make: its arguments.
Pending(sNull, bytes, resultNull, errNull) ==
    [NoCall EXCEPT !.op = "pending", !.sNull = sNull, !.s = bytes,
                   !.resultNull = resultNull, !.errNull = errNull]

\* The parser: one parse_hex call on any text up to MaxLen bytes with any
\* choice of null pointers; the caller then reads the code of the Error it
\* got and destroys it.
InitHex ==
    /\ heap = [a \in Addr |-> Unalloc]
    /\ handles = [a \in Addr |-> 0]
    /\ fault = "none"
    /\ call \in {Pending(sNull, bytes, resultNull, errNull) :
                    sNull \in {FALSE}, bytes \in Texts,
                    resultNull \in BOOLEAN, errNull \in BOOLEAN}
               \cup {Pending(TRUE, <<>>, resultNull, errNull) :
                    resultNull \in BOOLEAN, errNull \in BOOLEAN}

NextHex ==
    \/ /\ call.op = "pending"
       /\ parse_hex(call.sNull, call.s, call.resultNull, call.errNull)
    \/ \E h \in Addr : cfm_err_get_code(h)
    \/ \E h \in Addr : cfm_err_destroy(h)

SpecHex == InitHex /\ [][NextHex]_vars

\* ------------------------------------------------- what the claims speak of

\* A character of [0-9a-fA-F].
IsHexDigit(b) == b \in (48..57) \cup (65..70) \cup (97..102)

\* The number a hex digit denotes.
DigitValue(b) ==
    IF b \in 48..57 THEN b - 48 ELSE IF b \in 65..70 THEN b - 55 ELSE b - 87

\* The text after its optional prefix "0x": one marker, if there, is removed.
StripOne(s) ==
    IF Len(s) >= 2 /\ s[1] = 48 /\ s[2] = 120 THEN SubSeq(s, 3, Len(s)) ELSE s

AllHex(d) == \A i \in 1..Len(d) : IsHexDigit(d[i])

\* The number the digits d denote in base 16, the last digit the units.
RECURSIVE HexValue(_)
HexValue(d) ==
    IF d = <<>> THEN 0
    ELSE 16 * HexValue(SubSeq(d, 1, Len(d) - 1)) + DigitValue(d[Len(d)])

\* The first character of d, left to right, that is no hex digit.
FirstBad(d) ==
    d[CHOOSE i \in 1..Len(d) : ~IsHexDigit(d[i]) /\ \A j \in 1..(i - 1) : IsHexDigit(d[j])]

\* A live Error that nobody can release any more: no handle to it and no
\* live Error owning it.
Leaked(hp, hd) == \E a \in Addr : hp[a].state = "live" /\ hd[a] = 0 /\ ~OwnedAsSource(hp, a)

\* parse_hex has been called, and the state is the one it left.
Parsed == call.op = "parse_hex"

\* parse_hex has been called with a result pointer and a valid text, so that
\* the text reached parsehex.
ParsedText == Parsed /\ ~call.resultNull /\ ~call.sNull /\ to_str_ok(call.s)

\* The Error whose handle parse_hex wrote through err.
ErrOut == heap[call.errOut].val

AccessorOps ==
    {"cfm_err_get_code", "cfm_err_get_msg", "cfm_err_get_source", "cfm_err_get_backtrace"}

\* ---------------------------------------------------------------- claims

\* C1: for an Error that owns a cause, get_source calls on its live handle,
\* one destroy of the parent handle and one destroy of each handle
\* get_source returned release no Error allocation twice and read no
\* released allocation.
C1_NoDoubleFree == fault # "double_free"

\* C2: on every failure path of parse_hex with err null, no store goes
\* through a null pointer, no Error is left allocated, and the call returns
\* the error's code.
C2_NullErrDiscarded ==
    (Parsed /\ call.errNull /\ ~(call.returned /\ call.ret = 0)) =>
        /\ ~call.nullWrite
        /\ ~Leaked(heap, handles)
        /\ call.returned
        /\ call.ret = IF call.resultNull \/ call.sNull THEN 1
                      ELSE IF ~to_str_ok(call.s) THEN 5
                      ELSE error_code(parsehex(call.s).err)

\* C3: parse_hex returns 0 exactly when it wrote a value through result, and
\* then writes nothing through err; when it returns a status c # 0 it wrote
\* nothing through result and, err being non-null, *err is a live Error, held
\* by the caller alone, whose code is c.
C3_AllOrNothing ==
    Parsed =>
        /\ (call.returned /\ call.ret = 0) <=> (call.result # None)
        /\ (call.returned /\ call.ret = 0) => (call.errOut = NULL /\ ~call.nullWrite)
        /\ (call.returned /\ call.ret # 0) =>
              /\ call.result = None
              /\ ~call.errNull =>
                    /\ call.errOut \in Addr
                    /\ IsLive(heap, call.errOut)
                    /\ handles[call.errOut] = 1
                    /\ ~OwnedAsSource(heap, call.errOut)
                    /\ error_code(ErrOut) = call.ret

C3_Witness ==
    /\ Parsed /\ ~call.errNull /\ call.s = <<49, 103>>
    /\ call.ret = 3 /\ call.result = None /\ IsLive(heap, call.errOut)

\* C4: a null result pointer gives status 1 whatever the text is; otherwise
\* a null text pointer gives status 1; otherwise a text that is not valid
\* UTF-8 gives status 5, whatever else is wrong with it.
C4_CheckOrder ==
    Parsed =>
        /\ call.resultNull => (call.returned /\ call.ret = 1)
        /\ (~call.resultNull /\ call.sNull) => (call.returned /\ call.ret = 1)
        /\ (~call.resultNull /\ ~call.sNull /\ ~to_str_ok(call.s)) =>
              (call.returned /\ call.ret = 5)

\* C5: for a well-formed text (an optional "0x", then one or more hex digits
\* denoting at most 255) parse_hex returns 0 and writes through result the
\* number the digits denote.
C5_WellFormedParses ==
    (ParsedText /\ Len(StripOne(call.s)) >= 1 /\ AllHex(StripOne(call.s))
                /\ HexValue(StripOne(call.s)) <= 255) =>
        /\ call.returned
        /\ call.ret = 0
        /\ call.result = HexValue(StripOne(call.s))

C5_Witness ==
    ParsedText /\ call.s = <<48, 120, 102, 70>> /\ call.ret = 0 /\ call.result = 255

\* C6: a valid text that is empty once its optional "0x" is stripped fails
\* with InvalidFormat, status 2.
C6_EmptyAfterPrefix ==
    (ParsedText /\ StripOne(call.s) = <<>>) => (call.returned /\ call.ret = 2)

\* C7: a valid text with a character outside [0-9a-fA-F] after its optional
\* prefix fails with InvalidHexDigit, status 3, and the Error holds the first
\* such character, also when the digits before it denote more than 255.
\* (Stated for the texts with no second "0x" marker; those with one are what
\* C10 is about.)
C7_FirstBadDigit ==
    (ParsedText /\ ~AllHex(StripOne(call.s))
                /\ ~starts_with(StripOne(call.s), <<48, 120>>)) =>
        /\ call.returned
        /\ call.ret = 3
        /\ ~call.errNull =>
              /\ IsLive(heap, call.errOut)
              /\ ErrOut.kind = "InvalidHexDigit"
              /\ ErrOut.ch = FirstBad(StripOne(call.s))

\* C8: a text of hex digits only (after the optional prefix) that denotes
\* more than 255 fails with Overflow, status 4, and nothing, in particular
\* no value wrapped modulo 256, is written through result.
C8_OverflowIsStrict ==
    (ParsedText /\ Len(StripOne(call.s)) >= 1 /\ AllHex(StripOne(call.s))
                /\ HexValue(StripOne(call.s)) > 255) =>
        /\ call.returned
        /\ call.ret = 4
        /\ call.result = None
        /\ ~call.errNull => (IsLive(heap, call.errOut) /\ ErrOut.kind = "Overflow")

C8_Witness ==
    ParsedText /\ call.s = <<48, 120, 49, 48, 48>> /\ call.ret = 4 /\ call.result = None

\* C9: a call of an accessor on a live handle leaves every Error as it was
\* and returns 0, and a cfm_err_get_code call right after one on the same
\* handle writes the same code.
C9_AccessorsChangeNothing ==
    [][(call'.op \in AccessorOps) =>
          /\ heap' = heap
          /\ call'.returned
          /\ call'.ret = 0
          /\ (call.op = "cfm_err_get_code" /\ call'.op = "cfm_err_get_code"
                /\ call'.h = call.h) => (call'.out = call.out)]_vars

C9_Witness ==
    /\ call.op = "cfm_err_get_source"
    /\ call.out # <<NULL>>
    /\ \A a \in Addr : IsLive(heap, a)
    /\ heap[call.h].val.source = call.out[1]

\* C10: a text that begins with two "0x" markers loses the first only, so the
\* call fails with InvalidHexDigit, status 3, carrying 'x'.
C10_OnePrefixOnly ==
    (ParsedText /\ Len(call.s) >= 4 /\ SubSeq(call.s, 1, 4) = <<48, 120, 48, 120>>) =>
        /\ call.returned
        /\ call.ret = 3
        /\ ~call.errNull => (IsLive(heap, call.errOut) /\ ErrOut.ch = 120)

====
